---- MODULE Spec2Model ----
(***************************************************************************)
(* fetchiQL: a fetch POST wrapper for GraphQL requests.                    *)
(*                                                                         *)
(* Three entry points are modelled:                                        *)
(*   - the standalone function fetchiQL            (named export file)     *)
(*   - the method FetchiQLClient.send              (named export file)     *)
(*   - the legacy default export of src/src/index.ts, which uses the       *)
(*     module-level abortController                                        *)
(* together with the platform pieces they call: fetch, Response.json,      *)
(* AbortController.abort, JSON.stringify and JSON.parse.                   *)
(*                                                                         *)
(* JavaScript strings that the code converts (error messages, the JSON     *)
(* text of the errors list) are sequences of one-character strings.        *)
(* An object with optional fields (the options argument, the init object   *)
(* handed to fetch) is a function whose domain is the set of fields that   *)
(* are present.                                                            *)
(***************************************************************************)
EXTENDS Integers, Sequences, FiniteSets, TLC

\* ------------------------------------------------------------------ bounds
MaxCalls == 2
MaxHandles == 2
MaxErrors == 2

Calls == 1..MaxCalls
\* AbortController instances created by the caller
Handles == 1..MaxHandles
\* signal: undefined
NoSignal == 0
\* the module-level AbortController of the legacy variant
abortController == MaxHandles + 1
AllHandles == Handles \cup {abortController}

VARIABLES
  client,      \* the fields of the FetchiQLClient instance
  ctorGiven,   \* the options argument the constructor was called with
  aborted,     \* aborted[h]: h.abort() has been called
  entry,       \* entry[c]: which entry point call c went through
  handle,      \* handle[c]: the abortController argument of call c
  given,       \* given[c]: the options argument of call c
  args,        \* args[c]: the resource, query and variables arguments
  fetches,     \* fetches[c]: the resources call c has called fetch with
  req,         \* req[c]: the init object handed to fetch
  pc,          \* pc[c]: position of call c in its promise chain
  res,         \* res[c]: the Response fetch resolved with
  jsonCalled,  \* jsonCalled[c]: res.json() has been called
  bodyRead,    \* bodyRead[c]: res.json() has settled (body read to the end)
  err,         \* err[c]: the value the promise chain was rejected with
  outcome,     \* outcome[c]: state of the promise returned to the caller
  uncaught     \* uncaught[c]: the catch callback itself threw

vars == <<client, ctorGiven, aborted, entry, handle, given, args, fetches,
          req, pc, res, jsonCalled,
          bodyRead, err, outcome, uncaught>>

\* ------------------------------------------------------- option value sets
Modes == {"cors", "no-cors", "same-origin"}
Caches == {"default", "no-cache", "reload", "force-cache", "only-if-cached"}
Credentials == {"same-origin", "include", "omit"}
Redirects == {"follow", "manual", "error"}
ReferrerPolicies ==
  {"", "same-origin", "no-referrer", "no-referrer-when-downgrade", "origin",
   "strict-origin", "origin-when-cross-origin",
   "strict-origin-when-cross-origin", "unsafe-url"}

OptionValues(k) ==
  CASE k = "mode" -> Modes
    [] k = "cache" -> Caches
    [] k = "credentials" -> Credentials
    [] k = "redirect" -> Redirects
    [] k = "referrerPolicy" -> ReferrerPolicies

ScalarOptions == {"mode", "cache", "credentials", "redirect", "referrerPolicy"}

\* ----------------------------------------------------- JavaScript helpers
\* an object with no own property; also what spreading undefined adds
EmptyObject == [k \in {} |-> ""]

\* { ...a, ...b }
Spread(a, b) ==
  [k \in (DOMAIN a) \cup (DOMAIN b) |-> IF k \in DOMAIN b THEN b[k] ELSE a[k]]

\* o.k, or "undefined" when o has no such property
Get(o, k) == IF k \in DOMAIN o THEN o[k] ELSE "undefined"

\* truthiness of an option value: undefined and "" are falsy
Truthy(v) == v # "undefined" /\ v # ""

\* ------------------------------------------------------------ JSON text
\* a character copied into the literal without escaping
EscapeCharRaw(ch) == <<ch>>

\* JSON.stringify of one character inside a string literal
EscapeChar(ch) ==
  CASE ch = "\"" -> <<"\\", "\"">>
    [] ch = "\\" -> <<"\\", "\\">>
    [] ch = "\n" -> <<"\\", "n">>
    [] OTHER -> <<ch>>

RECURSIVE EscapeChars(_)
EscapeChars(s) ==
  IF s = <<>> THEN <<>> ELSE EscapeChar(Head(s)) \o EscapeChars(Tail(s))

\* JSON.stringify of a string
Quote(s) == <<"\"">> \o EscapeChars(s) \o <<"\"">>

\* the text {"message":
MessageKey == <<"{", "\"", "m", "e", "s", "s", "a", "g", "e", "\"", ":">>

\* JSON.stringify of one error object {message: m}
StringifyError(e) == MessageKey \o Quote(e.message) \o <<"}">>

RECURSIVE StringifyItems(_)
StringifyItems(errors) ==
  IF errors = <<>> THEN <<>>
  ELSE StringifyError(Head(errors))
       \o (IF Tail(errors) = <<>> THEN <<>> ELSE <<",">>)
       \o StringifyItems(Tail(errors))

\* JSON.stringify of the errors list
JSONstringify(errors) == <<"[">> \o StringifyItems(errors) \o <<"]">>

SyntaxError == [ok |-> FALSE, value |-> <<>>, next |-> 0]

\* reads a string literal from position i, just after the opening quote
RECURSIVE ParseString(_, _, _)
ParseString(t, i, acc) ==
  IF i > Len(t) THEN SyntaxError
  ELSE IF t[i] = "\"" THEN [ok |-> TRUE, value |-> acc, next |-> i + 1]
  ELSE IF t[i] = "\n" THEN SyntaxError
  ELSE IF t[i] = "\\" THEN
    IF i + 1 > Len(t) THEN SyntaxError
    ELSE IF t[i + 1] = "\"" THEN ParseString(t, i + 2, Append(acc, "\""))
    ELSE IF t[i + 1] = "\\" THEN ParseString(t, i + 2, Append(acc, "\\"))
    ELSE IF t[i + 1] = "n" THEN ParseString(t, i + 2, Append(acc, "\n"))
    ELSE SyntaxError
  ELSE ParseString(t, i + 1, Append(acc, t[i]))

\* reads one object {"message":"..."} from position i
ParseError(t, i) ==
  IF i + Len(MessageKey) > Len(t) THEN SyntaxError
  ELSE IF SubSeq(t, i, i + Len(MessageKey) - 1) # MessageKey THEN SyntaxError
  ELSE IF t[i + Len(MessageKey)] # "\"" THEN SyntaxError
  ELSE LET str == ParseString(t, i + Len(MessageKey) + 1, <<>>) IN
    IF ~str.ok THEN SyntaxError
    ELSE IF str.next > Len(t) THEN SyntaxError
    ELSE IF t[str.next] # "}" THEN SyntaxError
    ELSE [ok |-> TRUE, value |-> [message |-> str.value],
          next |-> str.next + 1]

\* reads the elements of an array from position i up to the closing bracket
RECURSIVE ParseItems(_, _, _)
ParseItems(t, i, acc) ==
  LET item == ParseError(t, i) IN
    IF ~item.ok THEN SyntaxError
    ELSE IF item.next > Len(t) THEN SyntaxError
    ELSE IF t[item.next] = "," THEN
      ParseItems(t, item.next + 1, Append(acc, item.value))
    ELSE IF t[item.next] = "]" /\ item.next = Len(t) THEN
      [ok |-> TRUE, value |-> Append(acc, item.value), next |-> item.next + 1]
    ELSE SyntaxError

\* JSON.parse of a text: a list of error objects, or a SyntaxError.  The
\* texts parsed are those JSON.stringify produces from an errors list and
\* the messages of platform errors; no other JSON shape reaches it.
JSONparse(t) ==
  IF Len(t) < 2 THEN SyntaxError
  ELSE IF t[1] # "[" THEN SyntaxError
  ELSE IF t[2] = "]" THEN
    IF Len(t) = 2 THEN [ok |-> TRUE, value |-> <<>>, next |-> 3]
    ELSE SyntaxError
  ELSE ParseItems(t, 2, <<>>)

\* a variables argument; given FALSE is the argument left out (undefined)
NoVariables == [given |-> FALSE, value |-> <<>>]
Variables(o) == [given |-> TRUE, value |-> o]

\* JSON.stringify of an object of string values, kept as its list of
\* <<key, value>> pairs in insertion order
RECURSIVE StringifyPairs(_)
StringifyPairs(o) ==
  IF o = <<>> THEN <<>>
  ELSE Quote(Head(o)[1]) \o <<":">> \o Quote(Head(o)[2])
       \o (IF Tail(o) = <<>> THEN <<>> ELSE <<",">>)
       \o StringifyPairs(Tail(o))

StringifyObject(o) == <<"{">> \o StringifyPairs(o) \o <<"}">>

\* the texts "query": and ,"variables":
QueryKey == <<"\"", "q", "u", "e", "r", "y", "\"", ":">>
VariablesKey ==
  <<",", "\"", "v", "a", "r", "i", "a", "b", "l", "e", "s", "\"", ":">>

\* JSON.stringify({query, variables}); a property whose value is undefined
\* is left out
StringifyEnvelope(query, variables) ==
  <<"{">> \o QueryKey \o Quote(query)
  \o (IF variables.given
        THEN VariablesKey \o StringifyObject(variables.value) ELSE <<>>)
  \o <<"}">>

\* a variables parameter without its default value
NoDefault(variables) == variables

\* the default parameter variables = {}
DefaultVariables(variables) ==
  IF variables.given THEN variables ELSE Variables(<<>>)

\* the body property of every init object
Body(query, variables) ==
  StringifyEnvelope(query, DefaultVariables(variables))

\* ------------------------------------------------------- platform errors
\* the message of a rejected fetch; the text is implementation-defined
FailedToFetch ==
  <<"F", "a", "i", "l", "e", "d", " ", "t", "o", " ", "f", "e", "t", "c", "h">>
LoadFailed == <<"L", "o", "a", "d", " ", "f", "a", "i", "l", "e", "d">>
NetworkMessages == {FailedToFetch, LoadFailed}

\* the message of the DOMException an aborted fetch rejects with
AbortMessage ==
  <<"T", "h", "e", " ", "u", "s", "e", "r", " ", "a", "b", "o", "r", "t",
    "e", "d", " ", "a", " ", "r", "e", "q", "u", "e", "s", "t", ".">>

\* the message of the SyntaxError res.json() rejects with
UnexpectedToken ==
  <<"U", "n", "e", "x", "p", "e", "c", "t", "e", "d", " ", "t", "o", "k",
    "e", "n", " ", "<">>

NoError == [name |-> "", dom |-> FALSE, message |-> <<>>]
TypeError(m) == [name |-> "TypeError", dom |-> FALSE, message |-> m]
AbortError == [name |-> "AbortError", dom |-> TRUE, message |-> AbortMessage]
JsonSyntaxError ==
  [name |-> "SyntaxError", dom |-> FALSE, message |-> UnexpectedToken]
\* new Error(message); new Error(undefined) has the empty message
Error(m) == [name |-> "Error", dom |-> FALSE, message |-> m]

RequestAborted ==
  <<"R", "e", "q", "u", "e", "s", "t", " ", "a", "b", "o", "r", "t", "e", "d">>

\* ------------------------------------------------------ promise outcomes
Pending ==
  [state |-> "pending", shape |-> "none", data |-> "undefined",
   str |-> <<>>, arr |-> <<>>]
Resolved(d) ==
  [state |-> "resolved", shape |-> "data", data |-> d,
   str |-> <<>>, arr |-> <<>>]
RejectedString(s) ==
  [state |-> "rejected", shape |-> "string", data |-> "undefined",
   str |-> s, arr |-> <<>>]
RejectedArray(a) ==
  [state |-> "rejected", shape |-> "array", data |-> "undefined",
   str |-> <<>>, arr |-> a]


\* ------------------------------------------------------------- responses
NoBody ==
  [kind |-> "none", data |-> "undefined", hasErrors |-> FALSE, errors |-> <<>>]
\* a body that is not JSON text
MalformedBody ==
  [kind |-> "malformed", data |-> "undefined", hasErrors |-> FALSE,
   errors |-> <<>>]
\* a JSON object body; data "undefined" and hasErrors FALSE mean the field
\* is absent
JsonBody(d, he, errs) ==
  [kind |-> "json", data |-> d, hasErrors |-> he, errors |-> errs]

NoResponse == [arrived |-> FALSE, ok |-> FALSE, body |-> NoBody]
Response(ok, body) == [arrived |-> TRUE, ok |-> ok, body |-> body]

\* ------------------------------------------------------- FetchiQLClient
\* the instance fields with their initializers
ClientDefaults ==
  [constructed |-> FALSE,
   resource |-> "undefined",
   mode |-> "cors",
   cache |-> "default",
   credentials |-> "same-origin",
   headers |-> EmptyObject,
   redirect |-> "follow",
   referrerPolicy |-> "no-referrer-when-downgrade"]

\* options && options.k ? options.k : this.k
CtorField(this, options, k) ==
  IF Truthy(Get(options, k)) THEN options[k] ELSE this[k]

\* options && options.headers ? options.headers : this.headers
CtorHeaders(this, options) ==
  IF "headers" \in DOMAIN options THEN options.headers ELSE this.headers

\* new FetchiQLClient(resource, options)
constructor(resource, options) ==
  /\ ~client.constructed
  /\ client' =
       [constructed |-> TRUE,
        resource |-> resource,
        mode |-> CtorField(client, options, "mode"),
        cache |-> CtorField(client, options, "cache"),
        credentials |-> CtorField(client, options, "credentials"),
        headers |-> CtorHeaders(client, options),
        redirect |-> CtorField(client, options, "redirect"),
        referrerPolicy |-> CtorField(client, options, "referrerPolicy")]
  /\ ctorGiven' = options
  /\ UNCHANGED <<aborted, entry, handle, given, args, fetches, req, pc, res, jsonCalled,
                 bodyRead, err, outcome, uncaught>>

\* ---------------------------------------------------------- request init
\* every call on the signal of the module-level controller
SignalOfModule(ac) == abortController

\* abortController ? abortController.signal : undefined
SignalOf(ac) == IF ac # NoSignal THEN ac ELSE NoSignal

\* the init object of the standalone function
FetchiQLInit(query, variables, options, ac) ==
  Spread([method |-> "POST", body |-> Body(query, variables),
          signal |-> SignalOf(ac)],
         options)

\* ...options?.headers
OptionHeaders(options) ==
  IF "headers" \in DOMAIN options THEN options.headers ELSE EmptyObject

\* send with the headers of the override replacing the client's
SendInitReplacingHeaders(this, query, variables, options, ac) ==
  Spread([method |-> "POST", body |-> Body(query, variables),
          signal |-> SignalOf(ac)],
         Spread(Spread([mode |-> this.mode,
                        cache |-> this.cache,
                        credentials |-> this.credentials,
                        redirect |-> this.redirect,
                        referrerPolicy |-> this.referrerPolicy,
                        headers |-> this.headers],
                       options),
                EmptyObject))

\* the init object of FetchiQLClient.send
SendInit(this, query, variables, options, ac) ==
  Spread([method |-> "POST", body |-> Body(query, variables),
          signal |-> SignalOf(ac)],
         Spread(Spread([mode |-> this.mode,
                        cache |-> this.cache,
                        credentials |-> this.credentials,
                        redirect |-> this.redirect,
                        referrerPolicy |-> this.referrerPolicy],
                       options),
                [headers |-> Spread(this.headers, OptionHeaders(options))]))

\* a legacy init object without the module-level signal
LegacyInitWithoutSignal(query, variables, options) ==
  Spread([method |-> "POST", body |-> Body(query, variables),
          signal |-> NoSignal],
         options)

\* the init object of the legacy default export
LegacyInit(query, variables, options) ==
  Spread([method |-> "POST", body |-> Body(query, variables),
          signal |-> abortController],
         options)

\* ----------------------------------------------------------------- fetch
\* The caller's AbortController instances are numbered in the order in which
\* the caller first uses them (passes them to a call or aborts them).
Used(h) == aborted[h] \/ \E c \in Calls : handle[c] = h
Usable(h) ==
  IF h \in Handles /\ h > 1 THEN Used(h - 1) ELSE TRUE

\* the arguments of a call; send has no resource argument
Arguments(resource, query, variables) ==
  [resource |-> resource, query |-> query, variables |-> variables]
NoArguments == Arguments("undefined", <<>>, NoVariables)

\* fetch(resource, init): an already aborted signal rejects at once
Fetch(c, e, a, resource, options, ac, init) ==
  /\ IF c = 1 THEN TRUE ELSE pc[c - 1] # "idle"
  /\ Usable(ac)
  /\ args' = [args EXCEPT ![c] = a]
  /\ fetches' = [fetches EXCEPT ![c] = Append(fetches[c], resource)]
  /\ entry' = [entry EXCEPT ![c] = e]
  /\ handle' = [handle EXCEPT ![c] = ac]
  /\ given' = [given EXCEPT ![c] = options]
  /\ req' = [req EXCEPT ![c] = init]
  /\ IF init.signal # NoSignal /\ aborted[init.signal]
       THEN /\ pc' = [pc EXCEPT ![c] = "catch"]
            /\ err' = [err EXCEPT ![c] = AbortError]
       ELSE /\ pc' = [pc EXCEPT ![c] = "fetching"]
            /\ err' = err
  /\ UNCHANGED <<client, ctorGiven, aborted, res, jsonCalled, bodyRead, outcome,
                 uncaught>>

\* fetchiQL(resource, query, variables, options, abortController)
fetchiQL(c, resource, query, variables, options, ac) ==
  /\ pc[c] = "idle"
  /\ Fetch(c, "fetchiQL", Arguments(resource, query, variables), resource,
           options, ac, FetchiQLInit(query, variables, options, ac))

\* client.send(query, variables, options, abortController)
send(c, query, variables, options, ac) ==
  /\ pc[c] = "idle"
  /\ client.constructed
  /\ Fetch(c, "send", Arguments("undefined", query, variables),
           client.resource, options, ac,
           SendInit(client, query, variables, options, ac))

\* the default export of src/src/index.ts
legacy(c, resource, query, variables, options) ==
  /\ pc[c] = "idle"
  /\ Fetch(c, "legacy", Arguments(resource, query, variables), resource,
           options, NoSignal, LegacyInit(query, variables, options))

\* the network fails before any response: fetch rejects with a TypeError
FetchRejects(c, m) ==
  /\ pc[c] = "fetching"
  /\ pc' = [pc EXCEPT ![c] = "catch"]
  /\ err' = [err EXCEPT ![c] = TypeError(m)]
  /\ UNCHANGED <<client, ctorGiven, aborted, entry, handle, given, args, fetches, req, res, jsonCalled,
                 bodyRead, outcome, uncaught>>

\* fetch resolves with a Response; the then callback starts and calls
\* res.json() (both branches call it before anything else)
FetchResolves(c, ok, body) ==
  /\ pc[c] = "fetching"
  /\ pc' = [pc EXCEPT ![c] = "json"]
  /\ res' = [res EXCEPT ![c] = Response(ok, body)]
  /\ jsonCalled' = [jsonCalled EXCEPT ![c] = TRUE]
  /\ UNCHANGED <<client, ctorGiven, aborted, entry, handle, given, args, fetches, req, bodyRead, err,
                 outcome, uncaught>>

\* a then callback that resolves only a body without errors
ThenCallbackCheckingErrors(r) ==
  IF r.body.kind = "malformed"
    THEN [pc |-> "catch", err |-> JsonSyntaxError, outcome |-> Pending]
  ELSE IF r.ok /\ ~r.body.hasErrors
    THEN [pc |-> "done", err |-> NoError, outcome |-> Resolved(r.body.data)]
  ELSE [pc |-> "catch",
        err |-> Error(IF r.body.hasErrors THEN JSONstringify(r.body.errors)
                      ELSE <<>>),
        outcome |-> Pending]

\* what the then callback does once res.json() has settled
ThenCallback(r) ==
  IF r.body.kind = "malformed"
    THEN [pc |-> "catch", err |-> JsonSyntaxError, outcome |-> Pending]
  ELSE IF r.ok
    THEN [pc |-> "done", err |-> NoError, outcome |-> Resolved(r.body.data)]
  ELSE [pc |-> "catch",
        err |-> Error(IF r.body.hasErrors THEN JSONstringify(r.body.errors)
                      ELSE <<>>),
        outcome |-> Pending]

\* res.json() settles and the then callback runs to its end
JsonSettles(c) ==
  /\ pc[c] = "json"
  /\ bodyRead' = [bodyRead EXCEPT ![c] = TRUE]
  /\ LET t == ThenCallback(res[c]) IN
       /\ pc' = [pc EXCEPT ![c] = t.pc]
       /\ err' = [err EXCEPT ![c] = t.err]
       /\ outcome' = [outcome EXCEPT ![c] = t.outcome]
  /\ UNCHANGED <<client, ctorGiven, aborted, entry, handle, given, args, fetches, req, res, jsonCalled,
                 uncaught>>

\* h.abort(): every fetch and body read using h's signal rejects
abort(h) ==
  /\ ~aborted[h]
  /\ Usable(h)
  /\ aborted' = [aborted EXCEPT ![h] = TRUE]
  /\ pc' = [c \in Calls |->
              IF pc[c] \in {"fetching", "json"} /\ req[c].signal = h
                THEN "catch" ELSE pc[c]]
  /\ err' = [c \in Calls |->
               IF pc[c] \in {"fetching", "json"} /\ req[c].signal = h
                 THEN AbortError ELSE err[c]]
  /\ UNCHANGED <<client, ctorGiven, entry, handle, given, args, fetches, req, res, jsonCalled, bodyRead,
                 outcome, uncaught>>

\* ------------------------------------------------------- catch callbacks
\* errors.map(error => error.message)
RECURSIVE MapMessage(_)
MapMessage(errors) ==
  IF errors = <<>> THEN <<>>
  ELSE <<Head(errors).message>> \o MapMessage(Tail(errors))

\* errorObj.reduce((acc, current) => `${acc}\n${current.message}`, acc)
RECURSIVE Reduce(_, _)
Reduce(errors, acc) ==
  IF errors = <<>> THEN acc
  ELSE Reduce(Tail(errors), acc \o <<"\n">> \o Head(errors).message)

Threw == [outcome |-> Pending, threw |-> TRUE]
Reject(o) == [outcome |-> o, threw |-> FALSE]

\* the catch callback of the standalone function
CatchFetchiQL(e) ==
  LET parsed == JSONparse(e.message) IN
    IF parsed.ok THEN Reject(RejectedArray(MapMessage(parsed.value)))
    ELSE Threw

\* the catch callback of FetchiQLClient.send
CatchSend(e) ==
  IF e.dom \/ e.name = "AbortError"
    THEN Reject(RejectedString(RequestAborted))
  ELSE LET parsed == JSONparse(e.message) IN
    IF parsed.ok THEN Reject(RejectedArray(MapMessage(parsed.value)))
    ELSE Threw

\* the catch callback of the legacy default export
CatchLegacy(e) ==
  LET parsed == JSONparse(e.message) IN
    IF parsed.ok THEN Reject(RejectedString(Reduce(parsed.value, <<>>)))
    ELSE Threw

\* the catch callback runs on the rejected chain
Catch(c) ==
  /\ pc[c] = "catch"
  /\ LET r == CASE entry[c] = "fetchiQL" -> CatchFetchiQL(err[c])
                [] entry[c] = "send" -> CatchSend(err[c])
                [] entry[c] = "legacy" -> CatchLegacy(err[c])
     IN /\ outcome' = [outcome EXCEPT ![c] = r.outcome]
        /\ uncaught' = [uncaught EXCEPT ![c] = r.threw]
  /\ pc' = [pc EXCEPT ![c] = "done"]
  /\ UNCHANGED <<client, ctorGiven, aborted, entry, handle, given, args, fetches, req, res, jsonCalled,
                 bodyRead, err>>

\* ---------------------------------------------------------------- inputs
HeaderNames == {"Authorization", "Content-Type"}
HeaderValues == {"v1", "v2"}
HeaderMaps == UNION {[S -> HeaderValues] : S \in SUBSET HeaderNames}

Methods == {"GET", "DELETE"}

\* options objects with at most one field
ConfigOptions ==
  {EmptyObject}
  \cup UNION {{k :> v : v \in OptionValues(k)} : k \in ScalarOptions}
  \cup {"headers" :> h : h \in HeaderMaps}
  \cup {"method" :> m : m \in Methods}

SmallOptions == {EmptyObject, "method" :> "GET"}

ErrorMessages == {<<"X">>, <<"Y", "\n">>, <<"\"", "\\">>}
ErrorObjects == {[message |-> m] : m \in ErrorMessages}
ErrorLists == UNION {[1..n -> ErrorObjects] : n \in 0..MaxErrors}
DataValues == {"undefined", "pets"}

Resources == {"/graphql", "/api/graphql"}
\* GraphQL documents, one of them with characters JSON.stringify escapes
PetsQuery == <<"{", "p", "e", "t", "s", "}">>
QuotedQuery == <<"{", "a", "(", "b", ":", "\"", "c", "\"", ")", "\n", "}">>
Queries == {PetsQuery, QuotedQuery}
\* variables arguments: left out, {} and {id: "1"}
VariablesArguments ==
  {NoVariables, Variables(<<>>), Variables(<<<<<<"i", "d">>, <<"1">>>>>>)}

\* every body the transport can deliver
AllBodies ==
  {MalformedBody}
  \cup {JsonBody(d, FALSE, <<>>) : d \in DataValues}
  \cup {JsonBody(d, TRUE, l) : d \in DataValues, l \in ErrorLists}

ConcurrentBodies == {JsonBody("pets", TRUE, <<[message |-> <<"X">>]>>)}

\* ------------------------------------------------------- specifications
InitCalls ==
  /\ ctorGiven = EmptyObject
  /\ aborted = [h \in AllHandles |-> FALSE]
  /\ entry = [c \in Calls |-> "none"]
  /\ handle = [c \in Calls |-> NoSignal]
  /\ given = [c \in Calls |-> EmptyObject]
  /\ args = [c \in Calls |-> NoArguments]
  /\ fetches = [c \in Calls |-> <<>>]
  /\ req = [c \in Calls |-> EmptyObject]
  /\ pc = [c \in Calls |-> "idle"]
  /\ res = [c \in Calls |-> NoResponse]
  /\ jsonCalled = [c \in Calls |-> FALSE]
  /\ bodyRead = [c \in Calls |-> FALSE]
  /\ err = [c \in Calls |-> NoError]
  /\ outcome = [c \in Calls |-> Pending]
  /\ uncaught = [c \in Calls |-> FALSE]

\* no client constructed yet
Init == client = ClientDefaults /\ InitCalls

\* what the transport and the promise chain do for the calls in cs
Transport(cs, oks, bodies, messages) ==
  \/ \E c \in cs, m \in messages : FetchRejects(c, m)
  \/ \E c \in cs, ok \in oks, b \in bodies : FetchResolves(c, ok, b)
  \/ \E c \in cs : JsonSettles(c)
  \/ \E c \in cs : Catch(c)

\* the steps of the calls in cs, with the caller's and the transport's
\* inputs drawn from the given sets
Steps(cs, hs, rs, qs, vs, ctorOptions, callOptions, bodies, messages) ==
  \/ \E r \in rs, o \in ctorOptions : constructor(r, o)
  \/ \E c \in cs, r \in rs, q \in qs, v \in vs, o \in callOptions,
        ac \in hs \cup {NoSignal} :
       fetchiQL(c, r, q, v, o, ac)
  \/ \E c \in cs, q \in qs, v \in vs, o \in callOptions,
        ac \in hs \cup {NoSignal} :
       send(c, q, v, o, ac)
  \/ \E c \in cs, r \in rs, q \in qs, v \in vs, o \in callOptions :
       legacy(c, r, q, v, o)
  \/ \E h \in hs \cup {abortController} : abort(h)
  \/ Transport(cs, BOOLEAN, bodies, messages)

\* the state after new FetchiQLClient(resource)
InitConstructed ==
  /\ client = [ClientDefaults EXCEPT !.constructed = TRUE,
                                     !.resource = "/graphql"]
  /\ InitCalls

\* concurrent calls of fetchiQL and send on a constructed client; each call
\* resolves, fails in the network or is aborted
Next ==
  \/ \E c \in Calls, ac \in Handles \cup {NoSignal} :
       fetchiQL(c, "/graphql", PetsQuery, NoVariables, EmptyObject, ac)
  \/ \E c \in Calls, ac \in Handles \cup {NoSignal} :
       send(c, PetsQuery, NoVariables, EmptyObject, ac)
  \/ \E h \in Handles : abort(h)
  \/ Transport(Calls, {TRUE}, ConcurrentBodies, {FailedToFetch})

Spec == InitConstructed /\ [][Next]_vars

\* one call, every options object
NextConfig ==
  Steps({1}, {1}, {"/graphql"}, {PetsQuery}, {NoVariables}, ConfigOptions,
        ConfigOptions, ConcurrentBodies, {FailedToFetch})

SpecConfig == Init /\ [][NextConfig]_vars

\* one call, every response
NextResponse ==
  Steps({1}, {1}, {"/graphql"}, {PetsQuery}, {NoVariables}, SmallOptions,
        SmallOptions, AllBodies, NetworkMessages)

SpecResponse == Init /\ [][NextResponse]_vars

\* one call, every resource, query and variables argument
NextRequest ==
  Steps({1}, {1}, Resources, Queries, VariablesArguments, {EmptyObject},
        SmallOptions, ConcurrentBodies, {FailedToFetch})

SpecRequest == Init /\ [][NextRequest]_vars

\* options of a legacy call: none, or the signal of a controller of the
\* caller's own
LegacyOptions == {EmptyObject, "signal" :> 1}

\* concurrent calls of the legacy default export
NextLegacy ==
  \/ \E c \in Calls, o \in LegacyOptions :
       legacy(c, "/graphql", PetsQuery, NoVariables, o)
  \/ \E h \in {1, abortController} : abort(h)
  \/ Transport(Calls, BOOLEAN, ConcurrentBodies, {FailedToFetch})

SpecLegacy == Init /\ [][NextLegacy]_vars

\* ================================================================ claims
Started(c) == pc[c] # "idle"
\* the transport delivered the whole response: fetch resolved and
\* res.json() settled
Delivered(c) == bodyRead[c]
JsonDelivered(c) == Delivered(c) /\ res[c].body.kind = "json"

\* C1: for every call of fetchiQL and of FetchiQLClient.send, whatever the
\* options object carries (a method field included), the method of the
\* request handed to fetch is POST.
C1_MethodAlwaysPost ==
  \A c \in Calls :
    Started(c) /\ entry[c] \in {"fetchiQL", "send"} => req[c].method = "POST"

\* the header maps given to the constructor (H1) and to the call (H2)
H1 == IF "headers" \in DOMAIN ctorGiven THEN ctorGiven.headers ELSE EmptyObject
H2(c) == IF "headers" \in DOMAIN given[c] THEN given[c].headers ELSE EmptyObject

PlatformDefault(k) ==
  CASE k = "mode" -> "cors"
    [] k = "cache" -> "default"
    [] k = "credentials" -> "same-origin"
    [] k = "redirect" -> "follow"
    [] k = "referrerPolicy" -> "no-referrer-when-downgrade"

\* C3: each of mode, cache, credentials, redirect and referrerPolicy of the
\* request send hands to fetch is the override's value when the override has
\* it, otherwise the value given to the constructor when it was given,
\* otherwise the platform default.
C3_ThreeTiers ==
  \A c \in Calls :
    Started(c) /\ entry[c] = "send" =>
      \A k \in ScalarOptions :
        req[c][k] = IF k \in DOMAIN given[c] THEN given[c][k]
                    ELSE IF k \in DOMAIN ctorGiven THEN ctorGiven[k]
                    ELSE PlatformDefault(k)

\* C4: for every entry point, once the transport has delivered a 2xx
\* response with a JSON body the call is resolved with exactly the body's
\* data field, whether or not the body also carries errors; it is not
\* rejected.
C4_SuccessResolvesData ==
  \A c \in Calls :
    JsonDelivered(c) /\ res[c].ok =>
      /\ pc[c] = "done"
      /\ outcome[c] = Resolved(res[c].body.data)
      /\ ~uncaught[c]

\* a 2xx body with both data and errors resolved with its data
C4_Witness ==
  \E c \in Calls :
    /\ JsonDelivered(c) /\ res[c].ok
    /\ res[c].body.hasErrors /\ Len(res[c].body.errors) > 0
    /\ res[c].body.data = "pets"
    /\ entry[c] = "legacy"
    /\ outcome[c].state = "resolved" /\ outcome[c].data = "pets"

\* the transport delivered a non-2xx response whose JSON body has an errors
\* list, and the promise chain of the call has run to its end
ErrorsDelivered(c) ==
  /\ pc[c] = "done"
  /\ JsonDelivered(c) /\ ~res[c].ok /\ res[c].body.hasErrors

\* C5: fetchiQL and send reject a non-2xx response whose JSON body has an
\* errors list with the array of the message of each error, one entry per
\* error, in the order of the response.
C5_RejectsMessages ==
  \A c \in Calls :
    ErrorsDelivered(c) /\ entry[c] \in {"fetchiQL", "send"} =>
      /\ outcome[c].state = "rejected"
      /\ outcome[c].shape = "array"
      /\ Len(outcome[c].arr) = Len(res[c].body.errors)
      /\ \A i \in 1..Len(res[c].body.errors) :
           outcome[c].arr[i] = res[c].body.errors[i].message

\* a rejection with two different messages, one of them with characters
\* JSON.stringify escapes
C5_Witness ==
  \E c \in Calls :
    /\ ErrorsDelivered(c) /\ entry[c] = "fetchiQL"
    /\ res[c].body.errors = <<[message |-> <<"\"", "\\">>], [message |-> <<"X">>]>>
    /\ outcome[c].arr = <<<<"\"", "\\">>, <<"X">>>>

\* the handle of the call was aborted before any response arrived, and the
\* promise chain of the call has run to its end
AbortedBeforeResponse(c) ==
  /\ pc[c] = "done"
  /\ handle[c] # NoSignal
  /\ err[c] = AbortError
  /\ ~res[c].arrived

\* C6: a call of fetchiQL or send whose cancellation handle is aborted
\* before the response arrives rejects with "Request aborted", and no
\* response body is parsed.
C6_AbortRejects ==
  \A c \in Calls :
    AbortedBeforeResponse(c) /\ entry[c] \in {"fetchiQL", "send"} =>
      /\ outcome[c] = RejectedString(RequestAborted)
      /\ ~jsonCalled[c]

MalformedResponse ==
  <<"M", "a", "l", "f", "o", "r", "m", "e", "d", "R", "e", "s", "p", "o", "n",
    "s", "e">>

\* C7: for every entry point, a response whose body is not JSON makes the
\* call reject with MalformedResponse; no exception escapes the catch
\* callback and the call does not stay pending.
C7_MalformedRejects ==
  \A c \in Calls :
    pc[c] = "done" /\ Delivered(c) /\ res[c].body.kind = "malformed" =>
      /\ outcome[c] = RejectedString(MalformedResponse)
      /\ ~uncaught[c]

\* the transport delivered a failure to call c: anything but a 2xx response
\* with a JSON body
FailureDelivered(c) == ~(JsonDelivered(c) /\ res[c].ok)

\* C8: for every entry point, once the promise chain has run to its end on
\* a failure (network failure, cancellation, non-2xx response, malformed
\* body) the promise returned to the caller is rejected.
C8_FailuresReject ==
  \A c \in Calls :
    pc[c] = "done" /\ FailureDelivered(c) => outcome[c].state = "rejected"

\* everything the model keeps about call c
CallState(c) ==
  <<entry[c], handle[c], given[c], args[c], fetches[c], req[c], pc[c], res[c], jsonCalled[c],
    bodyRead[c], err[c], outcome[c], uncaught[c]>>

InFlight(c) == pc[c] \in {"fetching", "json"}

\* a step in which handle h is aborted cancels the in-flight calls of
\* fetchiQL and send that were given h and leaves their other calls as they
\* were; any other step changes at most one call
IndependentStep ==
  /\ \A h \in AllHandles :
       aborted'[h] # aborted[h] =>
         \A c \in Calls :
           entry[c] \in {"fetchiQL", "send"} =>
             IF handle[c] = h /\ InFlight(c)
               THEN pc'[c] = "catch" /\ err'[c] = AbortError
               ELSE CallState(c)' = CallState(c)
  /\ aborted' = aborted =>
       \A c1, c2 \in Calls :
         c1 # c2 /\ CallState(c1)' # CallState(c1) =>
           CallState(c2)' = CallState(c2)

\* a call of fetchiQL or send is cancelled only through its own handle
OwnHandleOnly ==
  \A c \in Calls :
    entry[c] \in {"fetchiQL", "send"} /\ err[c] = AbortError =>
      handle[c] # NoSignal /\ aborted[handle[c]]

\* C9: concurrent calls of fetchiQL and send are independent: aborting
\* handle h cancels exactly the in-flight calls that were given h, and a
\* call given another handle or none is unaffected.
C9_Independent == [][IndependentStep /\ OwnHandleOnly']_vars

\* of two calls with different handles the one whose handle was aborted is
\* cancelled and the other, whose handle is not aborted, is resolved
C9_Witness ==
  \E c1, c2 \in Calls :
    /\ entry[c1] = "fetchiQL" /\ entry[c2] = "send"
    /\ handle[c1] # NoSignal /\ handle[c2] # NoSignal
    /\ handle[c1] # handle[c2]
    /\ aborted[handle[c1]] /\ ~aborted[handle[c2]]
    /\ pc[c1] = "done" /\ err[c1] = AbortError
    /\ pc[c2] = "done" /\ outcome[c2].state = "resolved"

\* the messages of an errors list joined by newline characters
RECURSIVE JoinLines(_)
JoinLines(errors) ==
  IF errors = <<>> THEN <<>>
  ELSE Head(errors).message
       \o (IF Tail(errors) = <<>> THEN <<>>
           ELSE <<"\n">> \o JoinLines(Tail(errors)))

\* C10: the legacy default export rejects a non-2xx response whose JSON body
\* has an errors list with one string: the messages in response order
\* joined by newline characters.
C10_LegacyJoinsMessages ==
  \A c \in Calls :
    ErrorsDelivered(c) /\ entry[c] = "legacy" =>
      outcome[c] = RejectedString(JoinLines(res[c].body.errors))

\* the resource call c was given: its argument, or for send the one the
\* client was constructed with
GivenResource(c) ==
  IF entry[c] = "send" THEN client.resource ELSE args[c].resource

\* the JSON text of {query, variables}, variables being {} when the
\* argument was left out
EnvelopeText(a) ==
  <<"{">> \o QueryKey \o Quote(a.query) \o VariablesKey
  \o StringifyObject(IF a.variables.given THEN a.variables.value ELSE <<>>)
  \o <<"}">>

Shares(c) == entry[c] = "legacy" /\ "signal" \notin DOMAIN given[c]

\* every legacy call that does not override signal uses the signal of the
\* module-level abortController, and none of them is in flight once that
\* controller is aborted
SharedSignal ==
  \A c \in Calls :
    Started(c) /\ Shares(c) =>
      /\ req[c].signal = abortController
      /\ aborted[abortController] => ~InFlight(c)

\* a step keeps the module-level controller aborted, cancels the sharing
\* calls in flight when it is aborted, cancels a sharing call started after
\* that, and resolves no sharing call after that
SharedAbortStep ==
  /\ aborted[abortController] => aborted'[abortController]
  /\ \A c \in Calls :
       /\ ~aborted[abortController] /\ aborted'[abortController]
            /\ Shares(c) /\ InFlight(c)
            => pc'[c] = "catch" /\ err'[c] = AbortError
       /\ aborted[abortController] /\ ~Started(c) /\ Started(c)' /\ Shares(c)'
            => pc'[c] = "catch" /\ err'[c] = AbortError
       /\ aborted[abortController] /\ Shares(c)'
            /\ outcome[c].state # "resolved"
            => outcome'[c].state # "resolved"

\* C12: in the legacy variant all calls that do not override signal share
\* the module-level abortController, whose aborted state is absorbing: once
\* it is aborted every such call in flight and every such call started
\* later is cancelled, and no step resets it.
C12_SharedAbsorbing == [][SharedAbortStep /\ SharedSignal']_vars

\* one abort of the module-level controller has cancelled two legacy calls,
\* one of them while its response body was being read
C12_Witness ==
  \E c1, c2 \in Calls :
    /\ c1 # c2 /\ Shares(c1) /\ Shares(c2)
    /\ aborted[abortController]
    /\ err[c1] = AbortError /\ res[c1].arrived /\ ~bodyRead[c1]
    /\ err[c2] = AbortError /\ pc[c2] = "done"

====
